---- MODULE Spec2Model ----
(***************************************************************************)
(* Model of the fall-detection data pipeline:                              *)
(*   preprocessor.py  process_accelerometer_data, process_image_sequence   *)
(*   dataloader.py    FallDetectionDataGenerator                           *)
(*                                                                         *)
(* Three specifications share the module:                                  *)
(*   SpecAcc  process_accelerometer_data applied to bounded inputs         *)
(*   SpecImg  process_image_sequence applied to bounded directory trees    *)
(*   Spec     the generator: construction, on_epoch_end, __getitem__       *)
(***************************************************************************)
EXTENDS Integers, Sequences, FiniteSets

VARIABLES
    \* ---- process_accelerometer_data (one call) ----
    acc_pc,        \* "idle" | "call" | "returned"
    acc_file,      \* the CSV at file_path: [exists, rows]
    acc_W,         \* window_size
    acc_S,         \* step
    acc_windows,   \* the slices df[i : i + window_size] taken by the loop
    acc_ret,       \* the returned array, one feature vector per window
    \* ---- process_image_sequence (one call) ----
    img_pc,        \* "idle" | "call" | "returned"
    img_dir,       \* the directory tree at dir_path
    img_n,         \* num_frames
    img_files,     \* frame_files (local of the call)
    img_indices,   \* indices (local of the call)
    img_ret,       \* the returned array of frames
    \* ---- FallDetectionDataGenerator ----
    gen_pc,        \* "idle" | "ready" | "loop" | "returned" | "raised"
    event_folders, \* self.event_folders
    labels,        \* self.labels
    batch_size,    \* self.batch_size
    shuffle,       \* self.shuffle
    indexes,       \* self.indexes
    epoch_ended,   \* whether the training loop has called on_epoch_end
    g_index,       \* argument of the running / last __getitem__
    g_batch,       \* batch_event_folders
    g_read,        \* what the file system held for each event processed so far
    g_i,           \* loop variable i of __data_generation (0-based)
    X_images,      \* rows of X_images
    X_accel,       \* the list X_accel
    y              \* rows of y

accVars == <<acc_pc, acc_file, acc_W, acc_S, acc_windows, acc_ret>>
imgVars == <<img_pc, img_dir, img_n, img_files, img_indices, img_ret>>
genVars == <<gen_pc, event_folders, labels, batch_size, shuffle, indexes, epoch_ended,
             g_index, g_batch, g_read, g_i, X_images, X_accel, y>>
vars == <<accVars, imgVars, genVars>>

----------------------------------------------------------------------------
(* Bounds of the model *)

MaxLen == 5        \* longest accelerometer CSV, in rows
MaxWindow == 3     \* largest window_size
MaxStep == 3       \* largest step

----------------------------------------------------------------------------
(* Generic helpers *)

Min(a, b) == IF a < b THEN a ELSE b
Max(a, b) == IF a > b THEN a ELSE b

SeqsUpTo(S, n) == UNION {[1..k -> S] : k \in 0..n}

RECURSIVE SumSeq(_)
SumSeq(s) == IF s = <<>> THEN 0 ELSE Head(s) + SumSeq(Tail(s))

RECURSIVE Gcd(_, _)
Gcd(a, b) == IF b = 0 THEN a ELSE Gcd(b, a % b)

Abs(a) == IF a < 0 THEN -a ELSE a

\* Numbers of the feature arrays, kept exact.  kind is
\*   "rat"  the rational num / den (den > 0, lowest terms)
\*   "sqrt" the square root of the rational num / den
\*   "nan"  NaN
\*   "mean" the arithmetic mean of the non-NaN numbers in terms
Rat(n, d) ==
    LET g == Gcd(Abs(n), d)
    IN  IF n = 0 THEN [kind |-> "rat", num |-> 0, den |-> 1, terms |-> <<>>]
        ELSE [kind |-> "rat", num |-> n \div g, den |-> d \div g, terms |-> <<>>]

NaN == [kind |-> "nan", num |-> 0, den |-> 1, terms |-> <<>>]

Zero == Rat(0, 1)

RatAdd(a, b) == Rat(a.num * b.den + b.num * a.den, a.den * b.den)

RECURSIVE RatSum(_)
RatSum(s) == IF s = <<>> THEN Zero ELSE RatAdd(Head(s), RatSum(Tail(s)))

RatDivInt(a, k) == Rat(a.num, a.den * k)

----------------------------------------------------------------------------
(* preprocessor.py: process_accelerometer_data *)

\* Rows of the CSV: (acc_x, acc_y, acc_z).  Both have an integral magnitude.
SampleSet == {<<0, 0, 0>>, <<1, 2, 2>>}

\* The file at file_path: missing, or a CSV with a header row and three
\* accelerometer columns (the column selection of lines 30-37 already applied).
AccFiles ==
    {[exists |-> FALSE, rows |-> <<>>]}
    \cup {[exists |-> TRUE, rows |-> r] : r \in SeqsUpTo(SampleSet, MaxLen)}

\* np.sqrt on the (perfect-square) sums of squares of SampleSet.
np_sqrt(n) == CHOOSE r \in 0..n : r * r = n

\* np.sqrt of a rational: exact when it is 0, symbolic otherwise.
sqrt_rat(r) ==
    IF r.num = 0 THEN Zero
    ELSE [kind |-> "sqrt", num |-> r.num, den |-> r.den, terms |-> <<>>]

\* df['smv'] = np.sqrt(acc_x**2 + acc_y**2 + acc_z**2): the frame gets a 4th column.
with_smv(rows) ==
    [k \in 1..Len(rows) |->
        <<rows[k][1], rows[k][2], rows[k][3],
          np_sqrt(rows[k][1] * rows[k][1] + rows[k][2] * rows[k][2]
                  + rows[k][3] * rows[k][3])>>]

\* Mutant of range: the stop value is included.
RECURSIVE range_inclusive(_, _, _)
range_inclusive(start, stop, stp) ==
    IF start <= stop THEN <<start>> \o range_inclusive(start + stp, stop, stp)
    ELSE <<>>

\* range(start, stop, step) as the for loop walks it.
RECURSIVE range(_, _, _)
range(start, stop, stp) ==
    IF start < stop THEN <<start>> \o range(start + stp, stop, stp) ELSE <<>>

\* df[i : j] for 0 <= i: positional row slice, clipped to the frame.
df_slice(df, i, j) == SubSeq(df, i + 1, Min(j, Len(df)))

column(window, c) == [k \in 1..Len(window) |-> window[k][c]]

\* Series.mean(): NaN on an empty series.
series_mean(s) == IF Len(s) = 0 THEN NaN ELSE Rat(SumSeq(s), Len(s))

\* Series.std(): sample standard deviation (ddof = 1), NaN below two values.
\* The value is kept exact as the square root of the rational variance
\*   (n * sum(v^2) - sum(v)^2) / (n * (n - 1)).
series_std(s) ==
    LET n == Len(s)
        sq == [k \in 1..n |-> s[k] * s[k]]
    IN  IF n < 2 THEN NaN
        ELSE sqrt_rat(Rat(n * SumSeq(sq) - SumSeq(s) * SumSeq(s), n * (n - 1)))

\* The features dict of one window, in insertion order.
window_features(window) ==
    <<series_mean(column(window, 1)), series_mean(column(window, 2)),
      series_mean(column(window, 3)), series_mean(column(window, 4)),
      series_std(column(window, 1)), series_std(column(window, 2)),
      series_std(column(window, 3)), series_std(column(window, 4))>>

\* Mutant of accel_windows: the loop bound is len(df) - window_size + 1, which
\* keeps the last full window.
accel_windows_keep_last(rows, window_size, stp) ==
    LET df == with_smv(rows)
        starts == range(0, Len(df) - window_size + 1, stp)
    IN  [k \in 1..Len(starts) |->
            [start |-> starts[k],
             rows |-> df_slice(df, starts[k], starts[k] + window_size)]]

\* The loop of lines 44-45: one slice per i in range(0, len(df) - window_size, step).
accel_windows(rows, window_size, stp) ==
    LET df == with_smv(rows)
        starts == range(0, Len(df) - window_size, stp)
    IN  [k \in 1..Len(starts) |->
            [start |-> starts[k],
             rows |-> df_slice(df, starts[k], starts[k] + window_size)]]

\* The returned array: np.array([]) for a missing file, else one row per window.
process_accelerometer_data(file, window_size, stp) ==
    IF ~file.exists THEN <<>>
    ELSE LET w == accel_windows(file.rows, window_size, stp)
         IN  [k \in 1..Len(w) |-> window_features(w[k].rows)]

AccIdle ==
    /\ acc_pc = "idle" /\ acc_file = [exists |-> FALSE, rows |-> <<>>]
    /\ acc_W = 1 /\ acc_S = 1 /\ acc_windows = <<>> /\ acc_ret = <<>>

AccInit ==
    /\ acc_pc = "call"
    /\ acc_file \in AccFiles
    /\ acc_W \in 1..MaxWindow
    /\ acc_S \in 1..MaxStep
    /\ acc_windows = <<>>
    /\ acc_ret = <<>>

\* One call process_accelerometer_data(file_path, window_size, step).
AccCall ==
    /\ acc_pc = "call"
    /\ acc_windows' = IF acc_file.exists
                      THEN accel_windows(acc_file.rows, acc_W, acc_S) ELSE <<>>
    /\ acc_ret' = process_accelerometer_data(acc_file, acc_W, acc_S)
    /\ acc_pc' = "returned"
    /\ UNCHANGED <<acc_file, acc_W, acc_S>>
    /\ UNCHANGED <<imgVars, genVars>>

----------------------------------------------------------------------------
(* preprocessor.py: process_image_sequence *)

MaxFiles == 3      \* numbered frame files a directory can hold
MaxFrames == 4     \* largest num_frames

\* Characters of the file names, in code-point order.
Chars == <<".", "1", "2", "3", "4", "5", "6", "7", "8", "9",
           "D", "S",
           "b", "e", "f", "g", "h", "j", "n", "p", "s", "t", "u", "x">>

Ord(c) == CHOOSE k \in 1..Len(Chars) : Chars[k] = c

\* str.startswith / str.endswith on names held as character sequences.
startswith(name, prefix) ==
    /\ Len(name) >= Len(prefix)
    /\ SubSeq(name, 1, Len(prefix)) = prefix

endswith(name, suffix) ==
    /\ Len(name) >= Len(suffix)
    /\ SubSeq(name, Len(name) - Len(suffix) + 1, Len(name)) = suffix

Extensions == {<<".", "p", "n", "g">>, <<".", "j", "p", "g">>,
               <<".", "j", "p", "e", "g">>}

ExtOf(k) ==
    IF k % 3 = 1 THEN <<".", "p", "n", "g">>
    ELSE IF k % 3 = 2 THEN <<".", "j", "p", "g">>
    ELSE <<".", "j", "p", "e", "g">>

\* f1.png, f2.jpg, f3.jpeg, f4.png, ...
FrameName(k) == <<"f", Chars[k + 1]>> \o ExtOf(k)

HiddenPng == <<".", "h", ".", "p", "n", "g">>   \* .h.png
DSStore == <<".", "D", "S">>                     \* .DS
TextFile == <<"n", ".", "t", "x", "t">>          \* n.txt
SubDir == <<"s", "u", "b">>                      \* sub

FileNames == {FrameName(k) : k \in 1..MaxFiles} \cup {HiddenPng, DSStore, TextFile}

\* A directory tree at dir_path: whether it exists, its regular files, and
\* whether it holds the subdirectory sub, with that one's regular files.
Dirs ==
    {[exists |-> FALSE, files |-> {}, hasSub |-> FALSE, subFiles |-> {}]}
    \cup {[exists |-> TRUE, files |-> f, hasSub |-> FALSE, subFiles |-> {}] :
            f \in SUBSET FileNames}
    \cup {[exists |-> TRUE, files |-> f, hasSub |-> TRUE, subFiles |-> g] :
            f \in SUBSET FileNames, g \in SUBSET FileNames}

\* Lexicographic order of names by code point (Python's str comparison).
RECURSIVE StrLess(_, _)
StrLess(a, b) ==
    IF b = <<>> THEN FALSE
    ELSE IF a = <<>> THEN TRUE
    ELSE IF Head(a) # Head(b) THEN Ord(Head(a)) < Ord(Head(b))
    ELSE StrLess(Tail(a), Tail(b))

\* sorted(...) of a set of distinct names.
RECURSIVE sorted(_)
sorted(S) ==
    IF S = {} THEN <<>>
    ELSE LET m == CHOOSE a \in S : \A b \in S \ {a} : StrLess(a, b)
         IN  <<m>> \o sorted(S \ {m})

\* os.listdir(dir_path) of the top directory: names of files and directories.
listdir_top(d) == d.files \cup (IF d.hasSub THEN {SubDir} ELSE {})

\* Lines 78-82: the directory whose frames are listed, "top" or "sub".
resolve_dir(d) ==
    LET dir_contents == {item \in listdir_top(d) : ~startswith(item, <<".">>)}
    IN  IF Cardinality(dir_contents) = 1 /\ dir_contents = {SubDir}
        THEN "sub" ELSE "top"

\* os.listdir of the resolved directory.
listdir_final(d) == IF resolve_dir(d) = "sub" THEN d.subFiles ELSE listdir_top(d)

\* Line 85: the sorted paths that end in an image extension.
frame_files(d) ==
    LET where == resolve_dir(d)
        names == {f \in listdir_final(d) : \E e \in Extensions : endswith(f, e)}
        s == sorted(names)
    IN  [k \in 1..Len(s) |-> [dir |-> where, name |-> s[k]]]

\* Mutant of np_linspace: endpoint=False, the samples i * (stop / num).
np_linspace_no_endpoint(stop, num) ==
    [k \in 1..num |-> ((k - 1) * stop) \div num]

\* np.linspace(start, stop, num, dtype=int) for 0 = start <= stop: the samples
\* i * (stop / (num - 1)), the last one set to stop, floored.  (The float product
\* equals the exact quotient for every stop, num below 30.)
np_linspace(stop, num) ==
    [k \in 1..num |->
        IF num = 1 THEN 0
        ELSE IF k = num THEN stop
        ELSE ((k - 1) * stop) \div (num - 1)]

\* Line 93.
select_indices(total_frames, num_frames) == np_linspace(total_frames - 1, num_frames)

\* Mutant of process_image_sequence: a directory with fewer files than
\* num_frames yields its files once each, without repetition.
process_image_sequence_no_repeat(d, num_frames) ==
    IF ~d.exists THEN <<>>
    ELSE LET ff == frame_files(d)
         IN  IF Len(ff) = 0 THEN <<>>
             ELSE IF Len(ff) < num_frames THEN ff
             ELSE LET indices == select_indices(Len(ff), num_frames)
                  IN  [k \in 1..num_frames |-> ff[indices[k] + 1]]

\* The returned array: np.array([]) when the directory is missing or holds no
\* frame file, else (every listed file being one cv2.imread decodes) the
\* loaded, resized, normalised frames in selection order.
process_image_sequence(d, num_frames) ==
    IF ~d.exists THEN <<>>
    ELSE LET ff == frame_files(d)
         IN  IF Len(ff) = 0 THEN <<>>
             ELSE LET indices == select_indices(Len(ff), num_frames)
                  IN  [k \in 1..num_frames |-> ff[indices[k] + 1]]

ImgIdle ==
    /\ img_pc = "idle"
    /\ img_dir = [exists |-> FALSE, files |-> {}, hasSub |-> FALSE, subFiles |-> {}]
    /\ img_n = 1 /\ img_files = <<>> /\ img_indices = <<>> /\ img_ret = <<>>

ImgInit ==
    /\ img_pc = "call"
    /\ img_dir \in Dirs
    /\ img_n \in 1..MaxFrames
    /\ img_files = <<>>
    /\ img_indices = <<>>
    /\ img_ret = <<>>

\* One call process_image_sequence(dir_path, num_frames, target_size).
ImgCall ==
    /\ img_pc = "call"
    /\ img_files' = IF img_dir.exists THEN frame_files(img_dir) ELSE <<>>
    /\ img_indices' = IF img_dir.exists /\ Len(frame_files(img_dir)) > 0
                      THEN select_indices(Len(frame_files(img_dir)), img_n)
                      ELSE <<>>
    /\ img_ret' = process_image_sequence(img_dir, img_n)
    /\ img_pc' = "returned"
    /\ UNCHANGED <<img_dir, img_n>>
    /\ UNCHANGED <<accVars, genVars>>

----------------------------------------------------------------------------
(* dataloader.py: FallDetectionDataGenerator *)

MaxEvents == 3     \* longest event_folders list
MaxBatch == 2      \* largest batch_size
GenFrames == 2     \* n_frames of the generator
GenWindow == 2     \* accel_window_size of the generator
GenStep == 1       \* accel_step of the generator

n_channels == 3
image_dim == <<2, 2>>

\* Event folder names as the dataset has them: <<"fall", k>> for fall-k and
\* <<"adl", k>> for adl-k; a list of n events starts with its n_falls falls.
EventName(k, n_falls) == IF k <= n_falls THEN <<"fall", k>> ELSE <<"adl", k - n_falls>>

\* The labels dict: 1 for a fall, 0 for an activity of daily living.
LabelOf(name) == IF name[1] = "fall" THEN 1 ELSE 0

\* np.arange(n)
np_arange(n) == [k \in 1..n |-> k - 1]

\* Mutant of np_random_shuffle: positions drawn independently (with
\* replacement), as np.random.choice would.
np_random_choice(s) ==
    LET n == Len(s)
    IN  {[k \in 1..n |-> s[f[k]]] : f \in [1..n -> 1..n]}

\* np.random.shuffle(s): every reordering of s is a possible outcome.
np_random_shuffle(s) ==
    LET n == Len(s)
        bij == {f \in [1..n -> 1..n] : \A a, b \in 1..n : f[a] = f[b] => a = b}
    IN  {[k \in 1..n |-> s[f[k]]] : f \in bij}

\* Mutant of on_epoch_end_indexes: the shuffle flag is not consulted.
on_epoch_end_always_shuffles(idx, shuf) == np_random_shuffle(idx)

\* What self.indexes may be after on_epoch_end (lines 47-48).
on_epoch_end_indexes(idx, shuf) == IF shuf THEN np_random_shuffle(idx) ELSE {idx}

\* Mutant of len_: the quotient rounded up, which counts a partial last batch.
len_ceil(n_events, bsize) == (n_events + bsize - 1) \div bsize

\* __len__
len_(n_events, bsize) == n_events \div bsize

\* a[lo:hi] on a 0-based list, 0 <= lo.
py_slice(a, lo, hi) == SubSeq(a, lo + 1, Min(hi, Len(a)))

\* Lines 35 and 38: the folders of batch index.
batch_folders(folders, idx, bsize, index) ==
    LET picked == py_slice(idx, index * bsize, (index + 1) * bsize)
    IN  [k \in 1..Len(picked) |-> folders[picked[k] + 1]]

\* Shape of the array process_image_sequence returns: (0,) for np.array([]),
\* else (num_frames, height, width, 3) with cv2.resize(frame, (w, h)) -> (h, w, 3).
image_array_shape(img, target_size) ==
    IF Len(img) = 0 THEN <<0>> ELSE <<Len(img), target_size[2], target_size[1], 3>>

\* NumPy's rule for X_images[i,] = value: value's shape, right-aligned against
\* the row's shape, must match it or be 1 in every dimension.
can_broadcast(src, dst) ==
    /\ Len(src) <= Len(dst)
    /\ \A k \in 1..Len(src) :
          LET a == src[Len(src) + 1 - k]
              b == dst[Len(dst) + 1 - k]
          IN  a = b \/ a = 1

\* np.mean(accel_features, axis=0) of a (k, 8) array, k >= 1.
np_mean_axis0(features) ==
    LET k == Len(features)
        col(j) == [w \in 1..k |-> features[w][j]]
        mean(v) ==
            IF \E w \in 1..k : v[w].kind = "nan" THEN NaN
            ELSE IF \A w \in 1..k : v[w].kind = "rat" THEN RatDivInt(RatSum(v), k)
            ELSE [kind |-> "mean", num |-> 0, den |-> k, terms |-> v]
    IN  [j \in 1..8 |-> mean(col(j))]

\* np.zeros(8)
np_zeros8 == [j \in 1..8 |-> Zero]

\* Mutant of accel_summary: the test is shape[0] > 1.
accel_summary_needs_two(accel_features) ==
    IF Len(accel_features) > 1 THEN np_mean_axis0(accel_features) ELSE np_zeros8

\* Lines 73-77: the row appended to X_accel.
accel_summary(accel_features) ==
    IF Len(accel_features) > 0 THEN np_mean_axis0(accel_features) ELSE np_zeros8

\* Rows of np.empty arrays before they are written.
UninitImage == <<[dir |-> "uninit", name |-> <<>>]>>
UninitLabel == -1

\* What the file system can hold for one event when its batch is built.
\* Frame directories: missing, holding no image, and holding three frames one
\* level down.
GenDirs ==
    {[exists |-> FALSE, files |-> {}, hasSub |-> FALSE, subFiles |-> {}],
     [exists |-> TRUE, files |-> {DSStore}, hasSub |-> FALSE, subFiles |-> {}],
     [exists |-> TRUE, files |-> {DSStore}, hasSub |-> TRUE,
      subFiles |-> {FrameName(1), FrameName(2), FrameName(3)}]}

\* Accelerometer files: missing, or holding the first n rows of an alternating
\* signal, for n = 0, exactly one window's length, and enough for 1 and 2 windows.
GenRows(n) == [k \in 1..n |-> IF k % 2 = 1 THEN <<1, 2, 2>> ELSE <<0, 0, 0>>]

GenAccFiles ==
    {[exists |-> FALSE, rows |-> <<>>]}
    \cup {[exists |-> TRUE, rows |-> GenRows(n)] :
            n \in {0, GenWindow, GenWindow + 1, GenWindow + GenStep + 1}}

GenIdle ==
    /\ gen_pc = "idle" /\ event_folders = <<>> /\ labels = <<>>
    /\ batch_size = 1 /\ shuffle = FALSE /\ indexes = <<>> /\ epoch_ended = FALSE
    /\ g_index = 0 /\ g_batch = <<>> /\ g_read = <<>> /\ g_i = 0
    /\ X_images = <<>> /\ X_accel = <<>> /\ y = <<>>

\* The generator after __init__ (lines 15-26), which ends with on_epoch_end().
GenInit ==
    /\ gen_pc = "ready"
    /\ \E n \in 0..MaxEvents :
          /\ \E n_falls \in 0..n :
                /\ event_folders = [k \in 1..n |-> EventName(k, n_falls)]
                /\ labels = [name \in {EventName(k, n_falls) : k \in 1..n} |->
                                LabelOf(name)]
          /\ shuffle \in BOOLEAN
          /\ indexes \in on_epoch_end_indexes(np_arange(n), shuffle)
    /\ batch_size \in 1..MaxBatch
    /\ epoch_ended = FALSE
    /\ g_index = 0 /\ g_batch = <<>> /\ g_read = <<>> /\ g_i = 0
    /\ X_images = <<>> /\ X_accel = <<>> /\ y = <<>>

\* on_epoch_end(), called by the training loop between batches.
on_epoch_end ==
    /\ gen_pc \in {"ready", "returned", "raised"}
    /\ indexes' \in on_epoch_end_indexes(indexes, shuffle)
    /\ epoch_ended' = TRUE
    /\ gen_pc' = "ready"
    /\ g_index' = 0 /\ g_batch' = <<>> /\ g_read' = <<>> /\ g_i' = 0
    /\ X_images' = <<>> /\ X_accel' = <<>> /\ y' = <<>>
    /\ UNCHANGED <<event_folders, labels, batch_size, shuffle>>
    /\ UNCHANGED <<accVars, imgVars>>

\* __getitem__(index) up to the first iteration of __data_generation's loop:
\* lines 35-38 and 54-56.
getitem ==
    /\ gen_pc \in {"ready", "returned", "raised"}
    /\ \E index \in 0..(len_(Len(event_folders), batch_size) - 1) :
          /\ g_index' = index
          /\ g_batch' = batch_folders(event_folders, indexes, batch_size, index)
    /\ X_images' = [r \in 1..batch_size |-> UninitImage]
    /\ X_accel' = <<>>
    /\ y' = [r \in 1..batch_size |-> UninitLabel]
    /\ g_read' = <<>>
    /\ g_i' = 0
    /\ gen_pc' = "loop"
    /\ UNCHANGED <<event_folders, labels, batch_size, shuffle, indexes, epoch_ended>>
    /\ UNCHANGED <<accVars, imgVars>>

\* One iteration of the loop of __data_generation (lines 59-80) and, after the
\* last one, the return of lines 83 and 43.  The iteration reads the event's
\* frame directory and accelerometer file as they are on disk at that moment.
data_generation_step ==
    /\ gen_pc = "loop"
    /\ \E d \in GenDirs, f \in GenAccFiles :
          LET folder_name == g_batch[g_i + 1]
              label == labels[folder_name]
              event_type == IF label = 1 THEN "falls" ELSE "adls"
              frames == process_image_sequence(d, GenFrames)
              row_shape == <<GenFrames, image_dim[1], image_dim[2], n_channels>>
              accel_features == process_accelerometer_data(f, GenWindow, GenStep)
          IN  /\ g_read' = Append(g_read, [event_path |-> <<event_type, folder_name>>,
                                          dir |-> d, acc |-> f])
              /\ IF can_broadcast(image_array_shape(frames, image_dim), row_shape)
                 THEN /\ X_images' = [X_images EXCEPT ![g_i + 1] = frames]
                      /\ X_accel' = Append(X_accel, accel_summary(accel_features))
                      /\ y' = [y EXCEPT ![g_i + 1] = label]
                      /\ g_i' = g_i + 1
                      /\ gen_pc' = IF g_i + 1 = Len(g_batch) THEN "returned" ELSE "loop"
                 ELSE \* ValueError: could not broadcast input array
                      /\ gen_pc' = "raised"
                      /\ UNCHANGED <<X_images, X_accel, y, g_i>>
    /\ UNCHANGED <<event_folders, labels, batch_size, shuffle, indexes, epoch_ended,
                   g_index, g_batch>>
    /\ UNCHANGED <<accVars, imgVars>>

----------------------------------------------------------------------------
(* Specifications *)

InitAcc == AccInit /\ ImgIdle /\ GenIdle
NextAcc == AccCall
SpecAcc == InitAcc /\ [][NextAcc]_vars

InitImg == ImgInit /\ AccIdle /\ GenIdle
NextImg == ImgCall
SpecImg == InitImg /\ [][NextImg]_vars

Init == GenInit /\ AccIdle /\ ImgIdle
Next == on_epoch_end \/ getitem \/ data_generation_step
Spec == Init /\ [][Next]_vars

----------------------------------------------------------------------------
(* Claims about process_accelerometer_data, checked under SpecAcc *)

AccReturned == acc_pc = "returned" /\ acc_file.exists

AccL == Len(acc_file.rows)

FloorDiv(a, b) == a \div b
CeilDiv(a, b) == -((-a) \div b)

\* C1 as stated: a sequence of length L yields exactly
\* max(0, floor((L - window_size) / step)) windows.
C1_FloorCount ==
    AccReturned => Len(acc_ret) = Max(0, FloorDiv(AccL - acc_W, acc_S))

\* C1 amended: a sequence of length L yields exactly
\* max(0, ceil((L - window_size) / step)) windows (0 when L <= window_size).
C1_CeilCount ==
    AccReturned =>
        /\ Len(acc_ret) = Max(0, CeilDiv(AccL - acc_W, acc_S))
        /\ AccL <= acc_W => Len(acc_ret) = 0

\* A call that emitted windows although L - window_size is no multiple of step.
C1_Witness ==
    /\ AccReturned
    /\ (AccL - acc_W) % acc_S # 0
    /\ Len(acc_ret) >= 2
    /\ Len(acc_ret) = FloorDiv(AccL - acc_W, acc_S) + 1

\* C2: there is one window per start index in {0, S, 2S, ...} strictly below
\* L - W and no other; each window is the W samples [start, start + W) of the
\* sequence; the count is max(0, ceil((L - W) / S)), which is 0 windows for
\* L = 128, W = 128, S = 64 and 2 windows for L = 256, W = 128, S = 64.
C2_WindowStarts ==
    AccReturned =>
        LET df == with_smv(acc_file.rows)
            n == Len(acc_windows)
        IN  /\ Len(acc_ret) = n
            /\ \A k \in 1..n :
                  /\ acc_windows[k].start = (k - 1) * acc_S
                  /\ acc_windows[k].start < AccL - acc_W
                  /\ Len(acc_windows[k].rows) = acc_W
                  /\ \A j \in 1..acc_W :
                        acc_windows[k].rows[j] = df[acc_windows[k].start + j]
            /\ \A i \in 0..AccL :
                  (i % acc_S = 0 /\ i < AccL - acc_W)
                      => \E k \in 1..n : acc_windows[k].start = i
            /\ n = Max(0, CeilDiv(AccL - acc_W, acc_S))
            /\ Len(range(0, 128 - 128, 64)) = 0
            /\ range(0, 256 - 128, 64) = <<0, 64>>

\* A call where L - W is a positive multiple of S: the start L - W is left out.
C2_Witness ==
    /\ AccReturned
    /\ AccL - acc_W > 0
    /\ (AccL - acc_W) % acc_S = 0
    /\ Len(acc_windows) >= 2
    /\ \A k \in 1..Len(acc_windows) : acc_windows[k].start # AccL - acc_W

----------------------------------------------------------------------------
(* Claims about process_image_sequence, checked under SpecImg *)

ImgReturned == img_pc = "returned"

\* T: the number of eligible image files of the call.
ImgT == Len(img_files)

StrLeq(a, b) == a = b \/ StrLess(a, b)

\* C5: an existing directory with T >= 1 eligible files yields exactly
\* num_frames frames, whether T is below, equal to or above num_frames, each the
\* file at a selected index in [0, T - 1]; T = 0 or a missing directory yields
\* zero frames.
C5_FrameCount ==
    ImgReturned =>
        IF img_dir.exists /\ ImgT >= 1
        THEN /\ Len(img_ret) = img_n
             /\ Len(img_indices) = img_n
             /\ \A k \in 1..img_n :
                   /\ img_indices[k] \in 0..(ImgT - 1)
                   /\ img_ret[k] = img_files[img_indices[k] + 1]
        ELSE Len(img_ret) = 0

\* A call on a directory with fewer files than num_frames: frames repeat.
C5_Witness ==
    /\ ImgReturned
    /\ ImgT >= 2
    /\ ImgT < img_n
    /\ Len(img_ret) = img_n
    /\ \E k \in 1..(img_n - 1) : img_ret[k] = img_ret[k + 1]

\* C6 as stated: no entry whose name begins with a dot, at the top level or at
\* the nested level, is counted as an eligible frame or returned, and such
\* entries are ignored when deciding whether to descend.
C6_NoHiddenFrames ==
    ImgReturned =>
        /\ \A k \in 1..Len(img_files) : ~startswith(img_files[k].name, <<".">>)
        /\ \A k \in 1..Len(img_ret) : ~startswith(img_ret[k].name, <<".">>)
        /\ (img_dir.exists /\ img_dir.hasSub
            /\ \A f \in img_dir.files : startswith(f, <<".">>))
               => \A k \in 1..Len(img_files) : img_files[k].dir = "sub"

\* The part of C6 the code keeps: hidden entries do not stop the descent into
\* a single visible subdirectory.
C6_DescentIgnoresHidden ==
    (ImgReturned /\ img_dir.exists /\ img_dir.hasSub
     /\ \A f \in img_dir.files : startswith(f, <<".">>))
        => \A k \in 1..Len(img_files) : img_files[k].dir = "sub"

NonDecreasing(s) == \A k \in 1..(Len(s) - 1) : s[k] <= s[k + 1]

----------------------------------------------------------------------------
(* Claims about FallDetectionDataGenerator, checked under Spec *)

NEvents == Len(event_folders)

BatchRunning == gen_pc \in {"loop", "returned", "raised"}

NoFrames(d) == ~d.exists \/ Len(frame_files(d)) = 0

\* C3 as stated: an event whose frame directory is missing or holds no
\* eligible image file does not abort the batch; no exception escapes batch
\* production for a missing path or an empty source.
C3_BatchNotAborted ==
    \A k \in 1..Len(g_read) : NoFrames(g_read[k].dir) => gen_pc # "raised"

\* Whether the accelerometer source yields no window: missing, zero rows, or
\* too short.
NoWindows(f) ==
    \/ ~f.exists
    \/ Len(f.rows) = 0
    \/ Len(accel_windows(f.rows, GenWindow, GenStep)) = 0

\* The rational q equals the sum of the rationals in v divided by n.
IsMeanOf(q, v, n) ==
    /\ q.kind = "rat"
    /\ q.num * n * RatSum(v).den = RatSum(v).num * q.den

\* C4: in the accelerometer-summary tensor the row of an event whose source is
\* missing, has zero rows or is too short for a window is the all-zero
\* 8-vector, the row of an event with at least one window is the elementwise
\* mean of its window feature vectors, and there is one 8-value row per event
\* processed: batch_size rows when the batch is returned.
C4_AccelRows ==
    BatchRunning =>
        /\ Len(X_accel) = g_i
        /\ gen_pc = "returned" => Len(X_accel) = batch_size
        /\ \A k \in 1..Len(X_accel) :
              LET f == g_read[k].acc
                  feats == process_accelerometer_data(f, GenWindow, GenStep)
                  n == Len(feats)
                  row == X_accel[k]
              IN  /\ DOMAIN row = 1..8
                  /\ NoWindows(f) =>
                        \A j \in 1..8 : row[j] = [kind |-> "rat", num |-> 0,
                                                  den |-> 1, terms |-> <<>>]
                  /\ ~NoWindows(f) =>
                        /\ n >= 1
                        /\ \A j \in 1..4 :
                              IsMeanOf(row[j], [w \in 1..n |-> feats[w][j]], n)
                        /\ row = np_mean_axis0(feats)

\* A returned batch with a zero row for a missing file, a zero row for a file
\* of exactly window_size rows, and a mean row for a file with one window.
C4_Witness ==
    /\ gen_pc = "returned"
    /\ \E k \in 1..Len(X_accel) :
          ~g_read[k].acc.exists /\ X_accel[k] = np_zeros8
    /\ \E k \in 1..Len(X_accel) :
          /\ g_read[k].acc.exists
          /\ Len(process_accelerometer_data(g_read[k].acc, GenWindow, GenStep)) = 1
          /\ X_accel[k] # np_zeros8

\* C7: __len__ is floor(N / B); for every index below it, and after any
\* on_epoch_end calls, __getitem__ takes exactly B event identifiers, those at
\* positions [index * B, (index + 1) * B) of the current permutation; a
\* trailing group of fewer than B events is never emitted (N = 95, B = 16 gives
\* 5 batches and drops 15 events).
C7_FullBatches ==
    /\ len_(NEvents, batch_size) * batch_size <= NEvents
    /\ NEvents < (len_(NEvents, batch_size) + 1) * batch_size
    /\ len_(95, 16) = 5
    /\ 95 - len_(95, 16) * 16 = 15
    /\ BatchRunning =>
          /\ g_index \in 0..(len_(NEvents, batch_size) - 1)
          /\ Len(g_batch) = batch_size
          /\ (g_index + 1) * batch_size <= NEvents
          /\ \A k \in 1..batch_size :
                g_batch[k] = event_folders[indexes[g_index * batch_size + k] + 1]

\* A batch taken after an epoch boundary from a list with a trailing group.
C7_Witness ==
    /\ gen_pc = "returned"
    /\ epoch_ended
    /\ NEvents % batch_size # 0
    /\ Len(g_batch) = batch_size
    /\ batch_size >= 2

\* C8: with shuffle disabled the index permutation is the insertion order after
\* construction and after any on_epoch_end and __getitem__ calls, so batch i is
\* the events at list positions i * B .. (i + 1) * B - 1, in that order.
C8_InsertionOrder ==
    ~shuffle =>
        /\ indexes = [k \in 1..NEvents |-> k - 1]
        /\ BatchRunning =>
              \A k \in 1..Len(g_batch) :
                  g_batch[k] = event_folders[g_index * batch_size + k]

\* A second batch, taken unshuffled after an epoch boundary.
C8_Witness ==
    /\ ~shuffle
    /\ epoch_ended
    /\ gen_pc = "returned"
    /\ g_index >= 1
    /\ NEvents >= 2

SeqRange(s) == {s[k] : k \in 1..Len(s)}

IsPermutation(idx, n) == Len(idx) = n /\ SeqRange(idx) = 0..(n - 1)

BatchSet(index) ==
    SeqRange(batch_folders(event_folders, indexes, batch_size, index))

\* C10: the index array is a permutation of 0..N-1 in every reachable state, so
\* the batches of indices 0..floor(N/B)-1 are pairwise disjoint and hold
\* floor(N/B) * B distinct events; __getitem__ never changes the permutation.
C10_Permutation ==
    /\ [](/\ IsPermutation(indexes, NEvents)
          /\ \A a, b \in 0..(len_(NEvents, batch_size) - 1) :
                a # b => BatchSet(a) \cap BatchSet(b) = {}
          /\ Cardinality(UNION {BatchSet(a) :
                                  a \in 0..(len_(NEvents, batch_size) - 1)})
                = len_(NEvents, batch_size) * batch_size)
    /\ [][gen_pc' \in {"loop", "returned", "raised"} => indexes' = indexes]_vars

\* A shuffled order, two batches long, with a batch taken from it.
C10_Witness ==
    /\ shuffle
    /\ epoch_ended
    /\ indexes # [k \in 1..NEvents |-> k - 1]
    /\ len_(NEvents, batch_size) >= 2
    /\ gen_pc = "returned"
    /\ g_index >= 1

====
